---- MODULE Spec2Model ----
(***************************************************************************)
(* AutoMonitor (src/AutoMonitor.py): a supervisor that keeps the scripts   *)
(* of config.json alive (monitor_scripts, kill_existing_process, the       *)
(* /reboot command) and a configuration store with two backup files        *)
(* (load_config_safely, /set_config, /restore_config).                     *)
(*                                                                         *)
(* Spec        the supervisor: the monitor thread, the /reboot command of  *)
(*             the bot thread, the OS process table and the clock.         *)
(* SpecUpdate  the supervisor with the confirm button of /pull instead of  *)
(*             /reboot.                                                    *)
(* SpecLive    the monitor thread with fairness, the clock following its   *)
(*             sleeps.                                                     *)
(* SpecConfig  the configuration store: config.json, .safe, .bak, .tmp.    *)
(* SpecFn      validate_config and the replacement of the tokens of args,  *)
(*             each applied once to an input of a bounded set.             *)
(***************************************************************************)
EXTENDS Integers, Sequences, FiniteSets, TLC

VARIABLES
    \* ---- supervisor ----
    PROJECTS,           \* module-level list of projects (local_path, name)
    CHECK_INTERVAL,     \* config.get("CHECK_INTERVAL", 60)
    ptable,             \* the OS process table: pid -> process or NoProc
    nextPid,            \* the pid the next fork gets
    processes,          \* monitor_scripts: name -> Popen handle (pid) or None
    last_restart_time,  \* monitor_scripts: name -> time of the last respawn
    now,                \* time.time()
    mpc,                \* where the monitor thread is
    midx,               \* the index in PROJECTS the for loop is at
    wakeAt,             \* when the monitor's time.sleep ends; 0 when it has
                        \* not slept since the for loop reached this project
    spawnedAt,          \* history: name -> time of the last poll spawn, or -1
    prevSpawnedAt,      \* history: name -> time of the poll spawn before it
    waited,             \* history: name -> the last poll spawn slept a cooldown
    stopped,            \* history: pid -> how the finally block ended it
    script,             \* index in PROJECTS -> what the file at local_path holds
    killed,             \* history: the pids that lines 179 and 219 killed
                        \* since the last Popen of the monitor
    \* ---- configuration store ----
    primary,            \* content of config.json
    safe,               \* content of config.json.safe
    bak,                \* content of config.json.bak
    tmp,                \* content of config.json.tmp
    cpc,                \* where the bot process is with the configuration
    config,             \* the document the running program loaded
    upload,             \* the attachment /set_config is handling
    op,                 \* the operation under way: its kind, what led to it,
                        \* the three files when it began, the tier it reads
    \* ---- functions of the module level ----
    called,             \* the function under way
    input,              \* its arguments
    returned,           \* whether it has returned
    output              \* what it returned

supVars == <<PROJECTS, CHECK_INTERVAL, ptable, nextPid, processes,
             last_restart_time, now, mpc, midx, wakeAt, spawnedAt,
             prevSpawnedAt, waited, stopped, script, killed>>
cfgVars == <<primary, safe, bak, tmp, cpc, config, upload, op>>
fnVars == <<called, input, returned, output>>
vars == <<supVars, cfgVars, fnVars>>

(***************************************************************************)
(* Bounds of the model.                                                    *)
(***************************************************************************)
MaxProjects == 2    \* projects of a document handed to validate_config
MaxArgs == 2        \* tokens of a project's args
MaxPid == 3         \* processes ever present: initial strays plus forks
MaxTime == 90       \* the clock stops here
MaxTimeLive == 150  \* where the clock stops when it follows the sleeps
TickStep == 10      \* granularity of the clock

(***************************************************************************)
(* Paths and command lines are sequences of characters.                    *)
(***************************************************************************)
None == -1
SCRIPT_DIR == <<"/", "s">>
python == <<"p", "y", "t", "h", "o", "n">>
\* sys.argv of the supervisor itself: python /s/A.py
AUTOMONITOR_LOCAL_PATH == SCRIPT_DIR \o <<"/", "A", ".", "p", "y">>

\* s in t, for Python strings
IsSubstring(s, t) ==
    \E i \in 0..(Len(t) - Len(s)) : SubSeq(t, i + 1, i + Len(s)) = s

\* str.rfind(c) + 1: the last position of c in s, 0 when there is none
rfind(c, s) ==
    LET hits == {i \in 1..Len(s) : s[i] = c}
    IN  IF hits = {} THEN 0 ELSE CHOOSE i \in hits : \A j \in hits : j <= i

isabs(p) == Len(p) > 0 /\ p[1] = "/"

join(dir, p) == IF isabs(p) THEN p ELSE dir \o <<"/">> \o p

basename(p) == SubSeq(p, rfind("/", p) + 1, Len(p))

\* os.path.splitext(f)[0]: cut at the last dot, unless only dots precede it
splitext_root(f) ==
    LET sep == rfind("/", f)
        dot == rfind(".", f)
    IN  IF dot > sep /\ (\E k \in (sep + 1)..(dot - 1) : f[k] # ".")
        THEN SubSeq(f, 1, dot - 1)
        ELSE f

\* lines 125-131 and 145-150: absolute local_path, name = stem of the file
ResolveProject(p) ==
    LET path == join(SCRIPT_DIR, p)
    IN  [local_path |-> path, name |-> splitext_root(basename(path))]

ResolveProjects(raw) == [i \in 1..Len(raw) |-> ResolveProject(raw[i])]

\* The PROJECTS lists of local_path the model runs with: two unrelated
\* scripts, a script whose file name is contained in another's, and two
\* scripts with the same file name in different directories.
RawProjectLists ==
    { << <<"w", ".", "p", "y">>, <<"x", ".", "p", "y">> >>,
      << <<"w", ".", "p", "y">>, <<"m", "w", ".", "p", "y">> >>,
      << <<"a", "/", "w", ".", "p", "y">>, <<"/", "b", "/", "w", ".", "p", "y">> >>,
      << <<"w", ".", "p", "y">>, <<"x", ".", "p", "y">>, <<"y", ".", "p", "y">> >> }

CheckIntervals == {10, 60}

RESTART_COOLDOWN == 30

Names == {PROJECTS[i].name : i \in 1..Len(PROJECTS)}

(***************************************************************************)
(* The OS process table.  cmd = 0 is the supervisor itself, cmd = i the    *)
(* command line ["python", PROJECTS[i].local_path].  by records who        *)
(* started the process (history only).                                     *)
(***************************************************************************)
Pids == 0..MaxPid
current_pid == 0
NoProc == [cmd |-> -1, by |-> "none"]

Alive(pid) == ptable[pid] # NoProc

Cmdline(k) ==
    IF k = 0 THEN <<python, AUTOMONITOR_LOCAL_PATH>>
    ELSE <<python, PROJECTS[k].local_path>>

\* line 174: any(script_name in str(arg) for arg in cmdline)
CmdlineMatches(script_path, cmdline) ==
    \E a \in 1..Len(cmdline) : IsSubstring(basename(script_path), cmdline[a])

\* kill_existing_process(script_path): the pids it terminates.  Every
\* process of the table belongs to the supervisor's user: the AccessDenied
\* branch of line 181 is not taken.
KillSet(script_path) ==
    {pid \in Pids : /\ pid # current_pid
                    /\ Alive(pid)
                    /\ CmdlineMatches(script_path, Cmdline(ptable[pid].cmd))}

\* kill_existing_process without lines 178-179: a process that does not
\* exit within the 5 s is left running
kill_existing_process_no_kill(script_path, timeouts) ==
    [pid \in Pids |->
        IF pid \in KillSet(script_path) /\ pid \notin timeouts
        THEN NoProc ELSE ptable[pid]]

\* the table after kill_existing_process(script_path); for the processes of
\* `timeouts` wait(timeout=5) raises TimeoutExpired
kill_existing_process(script_path, timeouts) ==
    [pid \in Pids |->
        IF pid \in KillSet(script_path)
        THEN IF pid \in timeouts THEN NoProc   \* line 179: kill()
                                 ELSE NoProc   \* line 175: terminate()
        ELSE ptable[pid]]

\* Popen.poll() is not None
Exited(handle) == ~Alive(handle)

\* subprocess.Popen(args) in table t, started by `by`
Popen(t, k, by) == [t EXCEPT ![nextPid] = [cmd |-> k, by |-> by]]

\* handle.terminate(); handle.wait(timeout=5); on timeout handle.kill()
Terminate(t, handle, timeout) ==
    IF handle = None THEN t
    ELSE IF timeout THEN [t EXCEPT ![handle] = NoProc]   \* line 219: kill()
    ELSE [t EXCEPT ![handle] = NoProc]                   \* line 214: terminate()

(***************************************************************************)
(* Configuration documents.  A JSON value is [type, val]; of a string only *)
(* its length is kept, of PROJECTS whether each project has a local_path.  *)
(***************************************************************************)
Absent == [type |-> "absent", val |-> 0]
JInt(n) == [type |-> "int", val |-> n]
JBool == [type |-> "bool", val |-> 1]
JStr(len) == [type |-> "str", val |-> len]
JList == [type |-> "list", val |-> 0]
JProjects(has_local_path) == [type |-> "list", val |-> has_local_path]
NoProjects(type) == [type |-> type, val |-> <<>>]

Doc(top, guild, token, authorized, projects) ==
    [top |-> top, GUILD_ID |-> guild, TOKEN |-> token,
     AUTHORIZED_LIST |-> authorized, PROJECTS |-> projects]

\* no document: the value of `config` before anything is loaded
NoDoc == Doc("none", Absent, Absent, Absent, NoProjects("absent"))

TOKEN_MIN_LEN == 50

\* the list of line 53 without its last key
required_keys_short == <<"GUILD_ID", "TOKEN", "AUTHORIZED_LIST">>

required_keys == <<"GUILD_ID", "TOKEN", "AUTHORIZED_LIST", "PROJECTS">>

Verdict(ok, key, why, index) ==
    [ok |-> ok, key |-> key, why |-> why, index |-> index]

\* isinstance(x, int): bool is a subclass of int
IsInt(x) == x.type \in {"int", "bool"}

\* validate_config with each key's type checked right after its presence
validate_config_interleaved(d) ==
    LET has(k) == d.top = "object" /\ d[k].type # "absent"
        nopath == {i \in 1..Len(d.PROJECTS.val) : ~d.PROJECTS.val[i]}
        firstnopath == CHOOSE i \in nopath : \A j \in nopath : i <= j
    IN  IF d.top \notin {"object", "array"} THEN Verdict(FALSE, "", "TypeError", 0)
        ELSE IF ~has("GUILD_ID") THEN Verdict(FALSE, "GUILD_ID", "missing", 0)
        ELSE IF ~IsInt(d.GUILD_ID) THEN Verdict(FALSE, "GUILD_ID", "type", 0)
        ELSE IF ~has("TOKEN") THEN Verdict(FALSE, "TOKEN", "missing", 0)
        ELSE IF d.TOKEN.type # "str" \/ d.TOKEN.val < TOKEN_MIN_LEN
             THEN Verdict(FALSE, "TOKEN", "invalid", 0)
        ELSE IF ~has("AUTHORIZED_LIST") THEN Verdict(FALSE, "AUTHORIZED_LIST", "missing", 0)
        ELSE IF d.AUTHORIZED_LIST.type # "list"
             THEN Verdict(FALSE, "AUTHORIZED_LIST", "type", 0)
        ELSE IF ~has("PROJECTS") THEN Verdict(FALSE, "PROJECTS", "missing", 0)
        ELSE IF d.PROJECTS.type # "list" THEN Verdict(FALSE, "PROJECTS", "type", 0)
        ELSE IF nopath # {} THEN Verdict(FALSE, "PROJECTS", "local_path", firstnopath - 1)
        ELSE Verdict(TRUE, "", "OK", 0)

\* validate_config(config_data): (is_valid, error_msg).  `key not in 5`
\* raises TypeError; in a JSON array no key is found.
validate_config(d) ==
    LET missing == {k \in 1..Len(required_keys) :
                        d.top # "object" \/ d[required_keys[k]].type = "absent"}
        first == CHOOSE k \in missing : \A j \in missing : k <= j
        nopath == {i \in 1..Len(d.PROJECTS.val) : ~d.PROJECTS.val[i]}
    IN  IF d.top \notin {"object", "array"}
        THEN Verdict(FALSE, "", "TypeError", 0)
        ELSE IF missing # {}
        THEN Verdict(FALSE, required_keys[first], "missing", 0)
        ELSE IF ~IsInt(d.GUILD_ID)
        THEN Verdict(FALSE, "GUILD_ID", "type", 0)
        ELSE IF d.TOKEN.type # "str" \/ d.TOKEN.val < TOKEN_MIN_LEN
        THEN Verdict(FALSE, "TOKEN", "invalid", 0)
        ELSE IF d.AUTHORIZED_LIST.type # "list"
        THEN Verdict(FALSE, "AUTHORIZED_LIST", "type", 0)
        ELSE IF d.PROJECTS.type # "list"
        THEN Verdict(FALSE, "PROJECTS", "type", 0)
        ELSE IF nopath # {}
        THEN Verdict(FALSE, "PROJECTS", "local_path",
                     (CHOOSE i \in nopath : \A j \in nopath : i <= j) - 1)
        ELSE Verdict(TRUE, "", "OK", 0)

(***************************************************************************)
(* Files.  A file is missing, holds bytes json.load rejects, or holds the  *)
(* JSON text of a document in some layout: "raw" as somebody wrote it,     *)
(* "indent2" as json.dump(..., indent=2) writes it.                        *)
(***************************************************************************)
Missing == [kind |-> "missing", doc |-> NoDoc, fmt |-> "-"]
Garbage == [kind |-> "garbage", doc |-> NoDoc, fmt |-> "-"]
Json(d, fmt) == [kind |-> "json", doc |-> d, fmt |-> fmt]

exists(f) == f.kind # "missing"

\* json.load(open(path)) succeeds
Parses(f) == f.kind = "json"

\* json.dump(config, f, ensure_ascii=False, indent=2)
json_dump(d) == Json(d, "indent2")

\* open(path, "w") before anything is written: an empty file
Truncated == Garbage

\* validate_config is not called
UsableUnvalidated(f) == Parses(f)

\* the file opens, parses and validates
Usable(f) == Parses(f) /\ validate_config(f.doc).ok

\* The documents the store runs with: two valid ones, one with a short
\* TOKEN, one without PROJECTS, and a JSON number.
DocA == Doc("object", JInt(1), JStr(51), JList, JProjects(<<TRUE>>))
DocB == Doc("object", JInt(2), JStr(51), JList, JProjects(<<TRUE>>))
DocShortToken == Doc("object", JInt(1), JStr(49), JList, JProjects(<<TRUE>>))
DocNoProjects == Doc("object", JInt(1), JStr(51), JList, NoProjects("absent"))
DocNumber == Doc("number", Absent, Absent, Absent, NoProjects("absent"))

StoreDocs == {DocA, DocB, DocShortToken, DocNumber}

\* what may lie on disk when the program starts
DiskContents ==
    {Missing, Garbage} \cup {Json(d, f) : d \in StoreDocs, f \in {"raw", "indent2"}}

\* what a user may attach to /set_config
Uploads == {Garbage} \cup {Json(d, "raw") : d \in StoreDocs \cup {DocNoProjects}}

NoOp == [kind |-> "none", via |-> "none", primary0 |-> Missing,
         safe0 |-> Missing, bak0 |-> Missing, src |-> "none"]

(***************************************************************************)
(* The configuration store is idle in the supervisor's specification.      *)
(***************************************************************************)
\* no function of the module level is under way
FnOff == called = "off" /\ input = NoDoc /\ returned = FALSE /\ output = NoDoc

CfgIdle ==
    /\ primary = Missing /\ safe = Missing /\ bak = Missing
    /\ tmp = Missing /\ cpc = "off" /\ config = NoDoc /\ upload = Missing
    /\ op = NoOp

(***************************************************************************)
(* monitor_scripts                                                         *)
(***************************************************************************)
InitSup ==
    /\ \E raw \in RawProjectLists : PROJECTS = ResolveProjects(raw)
    /\ CHECK_INTERVAL \in CheckIntervals
    \* strays a previous run of the supervisor left behind
    /\ \E strays \in SUBSET (1..2) :
         /\ ptable = [pid \in Pids |->
                        IF pid = current_pid THEN [cmd |-> 0, by |-> "self"]
                        ELSE IF pid \in 1..Cardinality(strays)
                             THEN [cmd |-> IF 1 \in strays /\ pid = 1 THEN 1 ELSE 2,
                                   by |-> "stray"]
                             ELSE NoProc]
         /\ nextPid = Cardinality(strays) + 1
    /\ processes = [n \in Names |-> None]
    /\ last_restart_time = [n \in Names |-> 0]
    /\ now = RESTART_COOLDOWN
    /\ mpc = "check"
    /\ midx = 1
    /\ wakeAt = 0
    /\ spawnedAt = [n \in Names |-> -1]
    /\ prevSpawnedAt = [n \in Names |-> -1]
    /\ waited = [n \in Names |-> FALSE]
    /\ stopped = [pid \in Pids |-> "no"]
    /\ script = [i \in 1..Len(PROJECTS) |-> "local"]
    /\ killed = {}

name == PROJECTS[midx].name
path == PROJECTS[midx].local_path

\* line 199 without the poll(): only a slot never started is started
NeedsRestartNeverPolled == processes[name] = None

\* line 199
NeedsRestart ==
    IF processes[name] = None THEN TRUE ELSE Exited(processes[name])

\* the comparison of line 204 the wrong way round
wait_time_inverted ==
    LET time_since_last_restart == now - last_restart_time[name]
    IN  IF time_since_last_restart > RESTART_COOLDOWN
        THEN RESTART_COOLDOWN - time_since_last_restart
        ELSE 0

\* lines 200-205: the remaining cooldown, 0 when it has elapsed
wait_time ==
    LET time_since_last_restart == now - last_restart_time[name]
    IN  IF time_since_last_restart < RESTART_COOLDOWN
        THEN RESTART_COOLDOWN - time_since_last_restart
        ELSE 0

\* the for loop moves on; after the last project, time.sleep(CHECK_INTERVAL)
NextProject ==
    IF midx < Len(PROJECTS)
    THEN /\ midx' = midx + 1
         /\ mpc' = "check"
         /\ wakeAt' = 0
    ELSE /\ midx' = midx
         /\ mpc' = "cycle_sleep"
         /\ wakeAt' = now + CHECK_INTERVAL

\* line 199, the process is running
MonitorAlive ==
    /\ mpc = "check"
    /\ ~NeedsRestart
    /\ NextProject
    /\ UNCHANGED <<cfgVars, fnVars, stopped, script, killed, PROJECTS, CHECK_INTERVAL, ptable, nextPid, processes,
                   last_restart_time, now, spawnedAt, prevSpawnedAt, waited>>

\* lines 199-207, the handle is absent or dead
MonitorDead ==
    /\ mpc = "check"
    /\ NeedsRestart
    /\ IF wait_time > 0
       THEN mpc' = "cooldown_sleep" /\ wakeAt' = now + wait_time
       ELSE mpc' = "kill" /\ wakeAt' = wakeAt
    /\ UNCHANGED <<cfgVars, fnVars, stopped, script, killed, PROJECTS, CHECK_INTERVAL, ptable, nextPid, processes,
                   last_restart_time, now, midx, spawnedAt, prevSpawnedAt, waited>>

\* the sleep of line 207 left out: the loop goes on at once
MonitorCooldownSkipped ==
    /\ mpc = "cooldown_sleep"
    /\ mpc' = "kill"
    /\ UNCHANGED <<cfgVars, fnVars, stopped, script, killed, PROJECTS, CHECK_INTERVAL, ptable, nextPid, processes,
                   last_restart_time, now, midx, wakeAt, spawnedAt, prevSpawnedAt, waited>>

\* line 207: time.sleep(wait_time) returns
MonitorCooldownOver ==
    /\ mpc = "cooldown_sleep"
    /\ now >= wakeAt
    /\ mpc' = "kill"
    /\ UNCHANGED <<cfgVars, fnVars, stopped, script, killed, PROJECTS, CHECK_INTERVAL, ptable, nextPid, processes,
                   last_restart_time, now, midx, wakeAt, spawnedAt, prevSpawnedAt, waited>>

\* line 210
MonitorKillExisting ==
    /\ mpc = "kill"
    /\ \E timeouts \in SUBSET KillSet(path) :
         /\ ptable' = kill_existing_process(path, timeouts)
         /\ killed' = timeouts
    /\ mpc' = "terminate"
    /\ UNCHANGED <<cfgVars, fnVars, stopped, script, PROJECTS, CHECK_INTERVAL, nextPid, processes,
                   last_restart_time, now, midx, wakeAt, spawnedAt, prevSpawnedAt, waited>>

\* lines 212-221: the stale handle is terminated, and stays in the table
MonitorTerminateStale ==
    /\ mpc = "terminate"
    /\ \E timeout \in BOOLEAN :
         \* only the wait for a running process can time out
         /\ timeout => (IF processes[name] = None THEN FALSE
                                                  ELSE Alive(processes[name]))
         /\ ptable' = Terminate(ptable, processes[name], timeout)
         /\ killed' = IF timeout THEN killed \cup {processes[name]} ELSE killed
    /\ mpc' = "spawn"
    /\ UNCHANGED <<cfgVars, fnVars, stopped, script, PROJECTS, CHECK_INTERVAL, nextPid, processes,
                   last_restart_time, now, midx, wakeAt, spawnedAt, prevSpawnedAt, waited>>

\* lines 224-225
MonitorSpawn ==
    /\ mpc = "spawn"
    /\ nextPid <= MaxPid
    /\ ptable' = Popen(ptable, midx, "poll")
    /\ processes' = [processes EXCEPT ![name] = nextPid]
    /\ nextPid' = nextPid + 1
    /\ last_restart_time' = [last_restart_time EXCEPT ![name] = now]
    /\ spawnedAt' = [spawnedAt EXCEPT ![name] = now]
    /\ prevSpawnedAt' = [prevSpawnedAt EXCEPT ![name] = spawnedAt[name]]
    /\ waited' = [waited EXCEPT ![name] = (wakeAt # 0)]
    /\ killed' = {}
    /\ NextProject
    /\ UNCHANGED <<cfgVars, fnVars, stopped, script, PROJECTS, CHECK_INTERVAL, now>>

\* line 231: processes.items() goes through the names in the order in which
\* line 185 inserted them, the order of their first project in PROJECTS
SlotIndex(n) ==
    CHOOSE k \in 1..Len(PROJECTS) :
        /\ PROJECTS[k].name = n
        /\ \A j \in 1..(k - 1) : PROJECTS[j].name # n

\* line 232: the handles the finally block finds
Handles == {processes[n] : n \in Names} \ {None}

\* the handles still running when the finally block starts
LiveHandles == {pid \in Handles : Alive(pid)}

\* the finally block lets the first TimeoutExpired escape: the slot that
\* timed out and the slots after it keep their processes
StopAllAborts(t, timeouts) ==
    LET late == {n \in Names : processes[n] \in timeouts}
        aborted(n) == \E f \in late : SlotIndex(f) <= SlotIndex(n)
    IN  [pid \in Pids |->
            IF \E n \in Names : processes[n] = pid /\ ~aborted(n)
            THEN NoProc ELSE t[pid]]

\* lines 230-240: the finally block ends every handle; for the handles of
\* `timeouts` wait(timeout=5) raises TimeoutExpired, the bare except of
\* line 236 catches it and line 238 kills the process
StopAll(t, timeouts) ==
    [pid \in Pids |->
        IF pid \in Handles
        THEN IF pid \in timeouts THEN NoProc   \* line 238: kill()
                                 ELSE NoProc   \* line 234: terminate()
        ELSE t[pid]]

\* history: which branch of lines 233-240 each handle took
StopOutcome(timeouts) ==
    [pid \in Pids |->
        IF pid \notin Handles THEN "no"
        ELSE IF ~Alive(pid) THEN "gone"
        ELSE IF pid \in timeouts THEN "kill"
        ELSE "terminate"]

\* line 224 raises (no interpreter, no more processes): nothing in the loop
\* catches it, the finally block runs and the thread ends
MonitorSpawnFails ==
    /\ mpc = "spawn"
    /\ \E timeouts \in SUBSET LiveHandles :
         /\ ptable' = StopAll(ptable, timeouts)
         /\ stopped' = StopOutcome(timeouts)
    /\ mpc' = "stopped"
    /\ UNCHANGED <<cfgVars, fnVars, script, killed, PROJECTS, CHECK_INTERVAL, nextPid, processes,
                   last_restart_time, now, midx, wakeAt, spawnedAt, prevSpawnedAt, waited>>

\* line 227: time.sleep(CHECK_INTERVAL) returns, the while loop goes round
MonitorNextCycle ==
    /\ mpc = "cycle_sleep"
    /\ now >= wakeAt
    /\ midx' = 1
    /\ mpc' = "check"
    /\ wakeAt' = 0
    /\ UNCHANGED <<cfgVars, fnVars, stopped, script, killed, PROJECTS, CHECK_INTERVAL, ptable, nextPid, processes,
                   last_restart_time, now, spawnedAt, prevSpawnedAt, waited>>

(***************************************************************************)
(* /reboot, run by the bot's thread                                        *)
(***************************************************************************)
\* lines 576-584: the first project of that name is started
RebootTarget(project) ==
    CHOOSE i \in 1..Len(PROJECTS) :
        /\ PROJECTS[i].name = project
        /\ \A j \in 1..(i - 1) : PROJECTS[j].name # project

reboot_command(project) ==
    /\ project \in Names
    /\ nextPid <= MaxPid
    /\ ptable' = Popen(ptable, RebootTarget(project), "reboot")
    /\ nextPid' = nextPid + 1
    /\ UNCHANGED <<cfgVars, fnVars, stopped, script, killed, PROJECTS, CHECK_INTERVAL, processes, last_restart_time,
                   now, mpc, midx, wakeAt, spawnedAt, prevSpawnedAt, waited>>

(***************************************************************************)
(* The green button of /pull, run by the bot's thread.  /pull has left the *)
(* code of GitHub in the temporary file of the project, and the Popen of   *)
(* line 759 succeeds.                                                      *)
(***************************************************************************)
\* lines 740-759: the code of GitHub is written to local_path, then the
\* script is started
UpdateConfirmView_confirm(project) ==
    /\ project \in Names
    /\ nextPid <= MaxPid
    /\ script' = [script EXCEPT ![RebootTarget(project)] = "github"]
    /\ ptable' = Popen(ptable, RebootTarget(project), "update")
    /\ nextPid' = nextPid + 1
    /\ UNCHANGED <<cfgVars, fnVars, stopped, killed, PROJECTS, CHECK_INTERVAL, processes,
                   last_restart_time, now, mpc, midx, wakeAt, spawnedAt,
                   prevSpawnedAt, waited>>

(***************************************************************************)
(* The environment                                                         *)
(***************************************************************************)
\* a supervised script ends on its own
ProcessExit(pid) ==
    /\ pid # current_pid
    /\ Alive(pid)
    /\ ptable' = [ptable EXCEPT ![pid] = NoProc]
    /\ UNCHANGED <<cfgVars, fnVars, stopped, script, killed, PROJECTS, CHECK_INTERVAL, nextPid, processes,
                   last_restart_time, now, mpc, midx, wakeAt, spawnedAt, prevSpawnedAt, waited>>

Tick ==
    /\ now < MaxTime
    /\ now' = now + TickStep
    /\ UNCHANGED <<cfgVars, fnVars, stopped, script, killed, PROJECTS, CHECK_INTERVAL, ptable, nextPid, processes,
                   last_restart_time, mpc, midx, wakeAt, spawnedAt, prevSpawnedAt, waited>>

Init == InitSup /\ CfgIdle /\ FnOff

Next ==
    \/ MonitorAlive
    \/ MonitorDead
    \/ MonitorCooldownOver
    \/ MonitorKillExisting
    \/ MonitorTerminateStale
    \/ MonitorSpawn
    \/ MonitorSpawnFails
    \/ MonitorNextCycle
    \/ \E project \in Names : reboot_command(project)
    \/ \E pid \in Pids : ProcessExit(pid)
    \/ Tick

Spec == Init /\ [][Next]_vars

\* The supervisor with the button of /pull in the place of /reboot: for the
\* process table the two commands are the same Popen of the first project
\* of that name, so that Spec covers the process tables of both.
NextUpdate ==
    \/ MonitorAlive
    \/ MonitorDead
    \/ MonitorCooldownOver
    \/ MonitorKillExisting
    \/ MonitorTerminateStale
    \/ MonitorSpawn
    \/ MonitorSpawnFails
    \/ MonitorNextCycle
    \/ \E project \in Names : UpdateConfirmView_confirm(project)
    \/ \E pid \in Pids : ProcessExit(pid)
    \/ Tick

SpecUpdate == Init /\ [][NextUpdate]_vars

(***************************************************************************)
(* The supervisor when the monitor thread keeps running: the Popen of line *)
(* 224 succeeds, the thread is scheduled, and time passes while it sleeps  *)
(* (lines 207 and 227); its other steps take no time.  The bot's commands  *)
(* are left out: they change nothing the poll loop reads but the process   *)
(* table.                                                                  *)
(***************************************************************************)
\* time passes during time.sleep
SleepTick ==
    /\ mpc \in {"cooldown_sleep", "cycle_sleep"}
    /\ now < wakeAt
    /\ now < MaxTimeLive
    /\ now' = now + TickStep
    /\ UNCHANGED <<cfgVars, fnVars, stopped, script, killed, PROJECTS, CHECK_INTERVAL, ptable, nextPid, processes,
                   last_restart_time, mpc, midx, wakeAt, spawnedAt, prevSpawnedAt, waited>>

\* one step of the monitor thread
MonitorStep ==
    \/ MonitorAlive
    \/ MonitorDead
    \/ MonitorCooldownOver
    \/ MonitorKillExisting
    \/ MonitorTerminateStale
    \/ MonitorSpawn
    \/ MonitorNextCycle

NextLive ==
    \/ MonitorStep
    \/ \E pid \in Pids : ProcessExit(pid)
    \/ SleepTick

SpecLive ==
    /\ Init
    /\ [][NextLive]_vars
    /\ WF_vars(MonitorStep)
    /\ WF_vars(SleepTick)

(***************************************************************************)
(* The configuration store: load_config_safely, /set_config,               *)
(* /restore_config, /reboot_self.  One command runs at a time, and reads   *)
(* and writes of the files do not fail with I/O errors.                    *)
(***************************************************************************)
CONFIG_PATH == "primary"
CONFIG_SAFE_BACKUP_PATH == "safe"
CONFIG_BACKUP_PATH == "bak"

\* the content of the file at a path
Read(p) ==
    CASE p = CONFIG_PATH -> primary
      [] p = CONFIG_SAFE_BACKUP_PATH -> safe
      [] p = CONFIG_BACKUP_PATH -> bak

\* .bak tried before .safe
backup_paths_reversed == <<CONFIG_BACKUP_PATH, CONFIG_SAFE_BACKUP_PATH>>

\* line 97: the order the backups are tried in
backup_paths == <<CONFIG_SAFE_BACKUP_PATH, CONFIG_BACKUP_PATH>>

\* lines 97-110: the index of the first backup that exists, parses and
\* validates, 0 when there is none
FirstUsableBackup ==
    LET good == {i \in 1..Len(backup_paths) : Usable(Read(backup_paths[i]))}
    IN  IF good = {} THEN 0 ELSE CHOOSE i \in good : \A j \in good : i <= j

\* the program (re)starts and runs load_config_safely at line 117; the
\* step leaves the files alone
BeginLoad(via) ==
    /\ cpc' = "load"
    /\ config' = NoDoc
    /\ op' = [kind |-> "load", via |-> via, primary0 |-> primary,
              safe0 |-> safe, bak0 |-> bak, src |-> "none"]

SupOff ==
    /\ PROJECTS = <<>>
    /\ CHECK_INTERVAL = 60
    /\ ptable = [pid \in Pids |-> NoProc]
    /\ nextPid = 1
    /\ processes = <<>>
    /\ last_restart_time = <<>>
    /\ now = 0
    /\ mpc = "off"
    /\ midx = 1
    /\ wakeAt = 0
    /\ spawnedAt = <<>>
    /\ prevSpawnedAt = <<>>
    /\ waited = <<>>
    /\ stopped = [pid \in Pids |-> "no"]
    /\ script = <<>>
    /\ killed = {}

InitConfig ==
    /\ SupOff
    /\ FnOff
    /\ primary \in DiskContents
    /\ safe \in DiskContents
    /\ bak \in DiskContents
    /\ tmp = Missing
    /\ upload = Missing
    /\ cpc = "load"
    /\ config = NoDoc
    /\ op = [kind |-> "load", via |-> "start", primary0 |-> primary,
             safe0 |-> safe, bak0 |-> bak, src |-> "none"]

\* lines 79-86: config.json opens, parses and validates
LoadPrimaryOk ==
    /\ cpc = "load"
    /\ Usable(primary)
    /\ config' = primary.doc
    /\ op' = [op EXCEPT !.src = CONFIG_PATH]
    /\ cpc' = "load_safe_open"
    /\ UNCHANGED <<supVars, fnVars, primary, safe, bak, tmp, upload>>

\* line 88: open(CONFIG_SAFE_BACKUP_PATH, "w")
LoadSafeOpen ==
    /\ cpc = "load_safe_open"
    /\ safe' = Truncated
    /\ cpc' = "load_safe_dump"
    /\ UNCHANGED <<supVars, fnVars, primary, bak, tmp, config, upload, op>>

\* lines 89-91
LoadSafeDump ==
    /\ cpc = "load_safe_dump"
    /\ safe' = json_dump(config)
    /\ cpc' = "idle"
    /\ UNCHANGED <<supVars, fnVars, primary, bak, tmp, config, upload, op>>

\* lines 93-105: config.json is unusable, a backup is usable
LoadFromBackup ==
    /\ cpc = "load"
    /\ ~Usable(primary)
    /\ FirstUsableBackup # 0
    /\ config' = Read(backup_paths[FirstUsableBackup]).doc
    /\ op' = [op EXCEPT !.src = backup_paths[FirstUsableBackup]]
    /\ cpc' = "load_restore_open"
    /\ UNCHANGED <<supVars, fnVars, primary, safe, bak, tmp, upload>>

\* line 107: open(CONFIG_PATH, "w")
LoadRestoreOpen ==
    /\ cpc = "load_restore_open"
    /\ primary' = Truncated
    /\ cpc' = "load_restore_dump"
    /\ UNCHANGED <<supVars, fnVars, safe, bak, tmp, config, upload, op>>

\* the document is returned, config.json is left as the open made it
LoadRestoreNoDump ==
    /\ cpc = "load_restore_dump"
    /\ cpc' = "idle"
    /\ UNCHANGED <<supVars, fnVars, primary, safe, bak, tmp, config, upload, op>>

\* lines 108-110
LoadRestoreDump ==
    /\ cpc = "load_restore_dump"
    /\ primary' = json_dump(config)
    /\ cpc' = "idle"
    /\ UNCHANGED <<supVars, fnVars, safe, bak, tmp, config, upload, op>>

\* line 114: no file is usable, RuntimeError ends the program
LoadFails ==
    /\ cpc = "load"
    /\ ~Usable(primary)
    /\ FirstUsableBackup = 0
    /\ cpc' = "fatal"
    /\ UNCHANGED <<supVars, fnVars, primary, safe, bak, tmp, config, upload, op>>

\* line 340: the attachment is saved to config.json.tmp
SetConfigSave(u) ==
    /\ cpc = "idle"
    /\ tmp' = u
    /\ upload' = u
    /\ cpc' = "set_check"
    /\ op' = [kind |-> "set_config", via |-> "none", primary0 |-> primary,
              safe0 |-> safe, bak0 |-> bak, src |-> "none"]
    /\ UNCHANGED <<supVars, fnVars, primary, safe, bak, config>>

\* lines 343-356 and 377-382: the attachment does not parse or validate
SetConfigReject ==
    /\ cpc = "set_check"
    /\ ~Usable(tmp)
    /\ tmp' = Missing
    /\ cpc' = "idle"
    /\ op' = [op EXCEPT !.src = "rejected"]
    /\ UNCHANGED <<supVars, fnVars, primary, safe, bak, config, upload>>

\* the attachment is applied when it parses, validate_config is skipped
SetConfigAcceptUnvalidated ==
    /\ cpc = "set_check"
    /\ Parses(tmp)
    /\ cpc' = IF exists(primary) THEN "set_safe_open" ELSE "set_swap"
    /\ UNCHANGED <<supVars, fnVars, primary, safe, bak, tmp, config, upload, op>>

\* lines 352-362: the attachment validates; config.json is read if there
SetConfigAccept ==
    /\ cpc = "set_check"
    /\ Usable(tmp)
    /\ cpc' = IF exists(primary) THEN "set_safe_open" ELSE "set_swap"
    /\ UNCHANGED <<supVars, fnVars, primary, safe, bak, tmp, config, upload, op>>

\* line 363: open(CONFIG_SAFE_BACKUP_PATH, "w")
SetConfigSafeOpen ==
    /\ cpc = "set_safe_open"
    /\ safe' = Truncated
    /\ cpc' = "set_safe_write"
    /\ UNCHANGED <<supVars, fnVars, primary, bak, tmp, config, upload, op>>

\* the new document, not the current one, goes to .safe
SetConfigSafeWriteNew ==
    /\ cpc = "set_safe_write"
    /\ safe' = tmp
    /\ cpc' = "set_backup"
    /\ UNCHANGED <<supVars, fnVars, primary, bak, tmp, config, upload, op>>

\* line 364: the bytes of config.json go to .safe
SetConfigSafeWrite ==
    /\ cpc = "set_safe_write"
    /\ safe' = primary
    /\ cpc' = "set_backup"
    /\ UNCHANGED <<supVars, fnVars, primary, bak, tmp, config, upload, op>>

\* line 366: os.replace(CONFIG_PATH, CONFIG_BACKUP_PATH)
SetConfigBackup ==
    /\ cpc = "set_backup"
    /\ bak' = primary
    /\ primary' = Missing
    /\ cpc' = "set_swap"
    /\ UNCHANGED <<supVars, fnVars, safe, tmp, config, upload, op>>

\* the temporary file is removed instead of renamed
SetConfigSwapLost ==
    /\ cpc = "set_swap"
    /\ tmp' = Missing
    /\ cpc' = "set_exec"
    /\ UNCHANGED <<supVars, fnVars, primary, safe, bak, config, upload, op>>

\* line 369: os.replace(temp_path, CONFIG_PATH)
SetConfigSwap ==
    /\ cpc = "set_swap"
    /\ primary' = tmp
    /\ tmp' = Missing
    /\ cpc' = "set_exec"
    /\ UNCHANGED <<supVars, fnVars, safe, bak, config, upload, op>>

\* lines 374-375: os.execl, the program starts again
SetConfigExec ==
    /\ cpc = "set_exec"
    /\ BeginLoad("set_config")
    /\ UNCHANGED <<supVars, fnVars, primary, safe, bak, tmp, upload>>

\* lines 656-659 and 804: a button of an existing backup is pressed
RestoreStart(tier) ==
    /\ cpc = "idle"
    /\ exists(Read(tier))
    /\ cpc' = "restore_check"
    /\ op' = [kind |-> "restore", via |-> "none", primary0 |-> primary,
              safe0 |-> safe, bak0 |-> bak, src |-> tier]
    /\ UNCHANGED <<supVars, fnVars, primary, safe, bak, tmp, config, upload>>

\* lines 806-812 and 823-824: the backup does not parse or validate
RestoreReject ==
    /\ cpc = "restore_check"
    /\ ~Usable(Read(op.src))
    /\ cpc' = "idle"
    /\ UNCHANGED <<supVars, fnVars, primary, safe, bak, tmp, config, upload, op>>

\* lines 806-810: the backup validates
RestoreAccept ==
    /\ cpc = "restore_check"
    /\ Usable(Read(op.src))
    /\ cpc' = "restore_open"
    /\ UNCHANGED <<supVars, fnVars, primary, safe, bak, tmp, config, upload, op>>

\* line 815: open(CONFIG_PATH, "w")
RestoreOpen ==
    /\ cpc = "restore_open"
    /\ primary' = Truncated
    /\ cpc' = "restore_dump"
    /\ UNCHANGED <<supVars, fnVars, safe, bak, tmp, config, upload, op>>

\* line 816
RestoreDump ==
    /\ cpc = "restore_dump"
    /\ primary' = json_dump(Read(op.src).doc)
    /\ cpc' = "restore_exec"
    /\ UNCHANGED <<supVars, fnVars, safe, bak, tmp, config, upload, op>>

\* lines 820-821: os.execl
RestoreExec ==
    /\ cpc = "restore_exec"
    /\ BeginLoad("restore")
    /\ UNCHANGED <<supVars, fnVars, primary, safe, bak, tmp, upload>>

\* lines 306-307: /reboot_self
reboot_self_command ==
    /\ cpc = "idle"
    /\ BeginLoad("reboot_self")
    /\ UNCHANGED <<supVars, fnVars, primary, safe, bak, tmp, upload>>

\* somebody edits, damages or deletes config.json while the bot is idle
ExternalEdit(c) ==
    /\ cpc = "idle"
    /\ c # primary
    /\ primary' = c
    /\ op' = [NoOp EXCEPT !.kind = "edit"]
    /\ UNCHANGED <<supVars, fnVars, safe, bak, tmp, cpc, config, upload>>

NextConfig ==
    \/ LoadPrimaryOk
    \/ LoadSafeOpen
    \/ LoadSafeDump
    \/ LoadFromBackup
    \/ LoadRestoreOpen
    \/ LoadRestoreDump
    \/ LoadFails
    \/ \E u \in Uploads : SetConfigSave(u)
    \/ SetConfigReject
    \/ SetConfigAccept
    \/ SetConfigSafeOpen
    \/ SetConfigSafeWrite
    \/ SetConfigBackup
    \/ SetConfigSwap
    \/ SetConfigExec
    \/ \E tier \in {CONFIG_SAFE_BACKUP_PATH, CONFIG_BACKUP_PATH} : RestoreStart(tier)
    \/ RestoreReject
    \/ RestoreAccept
    \/ RestoreOpen
    \/ RestoreDump
    \/ RestoreExec
    \/ reboot_self_command
    \/ \E c \in DiskContents : ExternalEdit(c)

SpecConfig == InitConfig /\ [][NextConfig]_vars

(***************************************************************************)
(* The functions of the module level on their own: validate_config, and    *)
(* the replacement of the tokens of a project's args (lines 133-143).      *)
(* A value of a dictionary is [type, origin, key]: its type, the           *)
(* dictionary it was taken from and the key it was stored under.           *)
(***************************************************************************)
\* the has_local_path lists of up to n projects
BoolSeqs(n) == UNION {[1..k -> BOOLEAN] : k \in 0..n}

\* documents handed to validate_config: every key absent, well typed or
\* mistyped; a JSON array; a JSON number
ValidateInputs ==
    {Doc("object", g, t, a, ps) :
        g \in {Absent, JInt(1), JBool, JStr(3)},
        t \in {Absent, JStr(TOKEN_MIN_LEN + 1), JStr(TOKEN_MIN_LEN),
               JStr(TOKEN_MIN_LEN - 1), JInt(1)},
        a \in {Absent, JList, JInt(1)},
        ps \in {NoProjects("absent"), NoProjects("str")}
                \cup {JProjects(q) : q \in BoolSeqs(MaxProjects)}}
    \cup {Doc("array", Absent, Absent, Absent, NoProjects("absent")), DocNumber}

\* the tokens of args: keys of config.json, names of the module, a field
\* only a project has, and a word that names nothing
Tokens ==
    {"GUILD_ID", "TOKEN", "CHECK_INTERVAL", "API_KEY", "SCRIPT_DIR", "config",
     "mode", "--verbose"}

Value(type, origin, key) == [type |-> type, origin |-> origin, key |-> key]
NoValue == Value("absent", "-", "-")

\* key in dict
has(dict, key) == dict[key] # NoValue

\* a validated config.json: GUILD_ID and TOKEN are there, CHECK_INTERVAL and
\* a key of the user's own (API_KEY) may be
ConfigDict(check_interval, api_key) ==
    [k \in Tokens |->
        IF k = "GUILD_ID" THEN Value("int", "config", k)
        ELSE IF k = "TOKEN" THEN Value("str", "config", k)
        ELSE IF k = "CHECK_INTERVAL" THEN check_interval
        ELSE IF k = "API_KEY" THEN api_key
        ELSE NoValue]

ConfigDicts ==
    {ConfigDict(ci, ak) :
        ci \in {NoValue, Value("int", "config", "CHECK_INTERVAL")},
        ak \in {NoValue, Value("str", "config", "API_KEY"),
                Value("dict", "config", "API_KEY")}}

\* a project of PROJECTS: besides local_path and args it may have fields
ProjectDict(mode, token, api_key) ==
    [k \in Tokens |->
        IF k = "mode" THEN mode
        ELSE IF k = "TOKEN" THEN token
        ELSE IF k = "API_KEY" THEN api_key
        ELSE NoValue]

ProjectDicts ==
    {ProjectDict(m, t, ak) :
        m \in {NoValue, Value("str", "project", "mode")},
        t \in {NoValue, Value("str", "project", "TOKEN")},
        ak \in {NoValue, Value("dict", "project", "API_KEY")}}

ArgLists == UNION {[1..k -> Tokens] : k \in 0..MaxArgs}

ResolveInputs ==
    {[project |-> p, config |-> c, args |-> a] :
        p \in ProjectDicts, c \in ConfigDicts, a \in ArgLists}

\* globals() at line 138: the names the module has bound by then
module_globals(cfg) ==
    [k \in Tokens |->
        IF k = "SCRIPT_DIR" THEN Value("str", "module", k)          \* line 33
        ELSE IF k = "config" THEN Value("dict", "module", k)        \* line 116
        ELSE IF k = "CHECK_INTERVAL"                                \* line 118
             THEN IF has(cfg, k) THEN cfg[k] ELSE Value("int", "default", k)
        ELSE IF k \in {"GUILD_ID", "TOKEN"} THEN cfg[k]             \* 119-120
        ELSE NoValue]

\* the look-up of globals() replaced by a look-up of the config dictionary
resolve_arg_config(project, cfg, arg) ==
    LET value == IF has(project, arg) THEN project[arg]
                 ELSE IF has(cfg, arg) THEN cfg[arg]
                 ELSE Value("str", "literal", arg)
    IN  IF value.type = "dict"
        THEN Value("json_text", value.origin, value.key)
        ELSE value

\* lines 138-142: one token of args
resolve_arg(project, cfg, arg) ==
    LET value == IF has(project, arg) THEN project[arg]
                 ELSE IF has(module_globals(cfg), arg) THEN module_globals(cfg)[arg]
                 ELSE Value("str", "literal", arg)
    IN  IF value.type = "dict"
        THEN Value("json_text", value.origin, value.key)   \* json.dumps
        ELSE value

\* lines 136-143: project["args"] after the replacement
resolve_args(project, cfg, args) ==
    [i \in 1..Len(args) |-> resolve_arg(project, cfg, args[i])]

InitFn ==
    /\ SupOff
    /\ CfgIdle
    /\ returned = FALSE
    /\ output = NoDoc
    /\ \/ called = "validate_config" /\ input \in ValidateInputs
       \/ called = "resolve_args" /\ input \in ResolveInputs

ValidateConfigReturn ==
    /\ called = "validate_config"
    /\ ~returned
    /\ output' = validate_config(input)
    /\ returned' = TRUE
    /\ UNCHANGED <<supVars, cfgVars, called, input>>

ResolveArgsReturn ==
    /\ called = "resolve_args"
    /\ ~returned
    /\ output' = resolve_args(input.project, input.config, input.args)
    /\ returned' = TRUE
    /\ UNCHANGED <<supVars, cfgVars, called, input>>

NextFn ==
    \/ ValidateConfigReturn
    \/ ResolveArgsReturn

SpecFn == InitFn /\ [][NextFn]_vars

(***************************************************************************)
(* Properties.                                                             *)
(***************************************************************************)
\* the live processes running project k's script
LiveFor(k) == {pid \in Pids : Alive(pid) /\ ptable[pid].cmd = k}

\* the same, in the next state
LiveForNext(k) == {pid \in Pids : ptable'[pid] # NoProc /\ ptable'[pid].cmd = k}

\* the monitor thread is between its kill and its spawn for a project of
\* that name
MonitorRestarting(project) ==
    mpc \in {"kill", "terminate", "spawn"} /\ name = project

\* C1: /reboot issued twice for one project never leaves two processes of
\* that project's script alive together.
C1_RebootTwiceOneProcess ==
    \A p, q \in Pids :
        (/\ Alive(p) /\ Alive(q)
         /\ ptable[p].by = "reboot" /\ ptable[q].by = "reboot"
         /\ ptable[p].cmd = ptable[q].cmd) => p = q

\* C2: right after the monitor respawns a project whose handle was absent
\* or dead, exactly one process runs that project's script: the duplicate
\* scan and the termination of the stale handle came before the spawn.
C2_OneProcessAfterRespawn ==
    [][MonitorSpawn => Cardinality(LiveForNext(midx)) = 1]_vars

\* C3: /reboot never starts a project while the monitor thread is inside
\* its kill-then-spawn sequence for the same slot.
C3_RebootExcludesRespawn ==
    [][\A project \in Names :
          reboot_command(project) => ~MonitorRestarting(project)]_vars

\* C4: two consecutive poll spawns of one slot are at least
\* RESTART_COOLDOWN apart.
C4_PollSpawnsCooldownApart ==
    \A n \in Names :
        prevSpawnedAt[n] # -1 =>
            spawnedAt[n] - prevSpawnedAt[n] >= RESTART_COOLDOWN

\* C4 witness: a slot respawned by the poll loop after it slept out the
\* rest of the cooldown.
C4_Witness ==
    \E n \in Names :
        /\ prevSpawnedAt[n] # -1
        /\ waited[n]
        /\ spawnedAt[n] - prevSpawnedAt[n] >= RESTART_COOLDOWN

\* C5: when /reboot has started a project, every other process of that
\* project's script, the slot's stale handle included, has been killed.
C5_RebootKillsBeforeSpawn ==
    [][\A project \in Names :
          reboot_command(project) =>
              LiveForNext(RebootTarget(project)) = {nextPid}]_vars

\* C6: a failing spawn for one slot does not end the poll loop.
C6_PollLoopSurvivesSpawnError == mpc # "stopped"

\* a file that holds a document validate_config accepts
Valid(f) == f.kind = "json" /\ validate_config(f.doc).ok

\* load_config_safely has returned
Loaded == cpc = "idle" /\ op.kind = "load"

\* C7: config.json unusable and .safe valid: the load returns the document
\* of .safe and config.json holds that document afterwards.
C7_LoadRecoversFromSafe ==
    (Loaded /\ ~Valid(op.primary0) /\ Valid(op.safe0)) =>
        /\ config = op.safe0.doc
        /\ primary.kind = "json"
        /\ primary.doc = op.safe0.doc

\* C7 witness: config.json parses but fails validation, .safe and .bak hold
\* different valid documents, and the load has returned the one of .safe.
C7_Witness ==
    /\ Loaded
    /\ op.primary0.kind = "json" /\ ~Valid(op.primary0)
    /\ Valid(op.safe0) /\ Valid(op.bak0) /\ op.safe0.doc # op.bak0.doc
    /\ config = op.safe0.doc
    /\ primary = json_dump(op.safe0.doc)

\* C8: config.json and .safe unusable and .bak valid: the load returns the
\* document of .bak; and .bak is the source only when .safe is unusable.
C8_LoadFallsBackToBak ==
    /\ (Loaded /\ ~Valid(op.primary0) /\ ~Valid(op.safe0) /\ Valid(op.bak0)) =>
           config = op.bak0.doc
    /\ (Loaded /\ op.src = CONFIG_BACKUP_PATH) => ~Valid(op.safe0)

\* C8 witness: .safe is there but fails validation, and the load has
\* returned the document of .bak.
C8_Witness ==
    /\ Loaded
    /\ ~Valid(op.primary0)
    /\ op.safe0.kind = "json" /\ ~Valid(op.safe0)
    /\ Valid(op.bak0)
    /\ op.src = CONFIG_BACKUP_PATH
    /\ config = op.bak0.doc

\* C9: none of the three files valid: the load neither returns nor writes;
\* it ends in the RuntimeError with the three files as they were.
C9_LoadFailsFilesUntouched ==
    (op.kind = "load" /\ ~Valid(op.primary0) /\ ~Valid(op.safe0)
                      /\ ~Valid(op.bak0)) =>
        /\ cpc \in {"load", "fatal"}
        /\ primary = op.primary0 /\ safe = op.safe0 /\ bak = op.bak0

\* C9 witness: the load has failed with files that parse but do not
\* validate.
C9_Witness ==
    /\ cpc = "fatal"
    /\ op.primary0.kind = "json" /\ op.safe0.kind = "json"
    /\ op.bak0.kind = "json"
    /\ primary = op.primary0 /\ safe = op.safe0 /\ bak = op.bak0

\* C10: the load that follows an accepted /set_config returns the uploaded
\* document.
C10_ReplaceLoadRoundTrip ==
    (Loaded /\ op.via = "set_config") => config = upload.doc

\* C10 witness: a valid upload that differs from the configuration it
\* replaced has been loaded.
C10_Witness ==
    /\ Loaded /\ op.via = "set_config"
    /\ Valid(upload) /\ config = upload.doc
    /\ Valid(bak) /\ bak.doc # upload.doc

\* C11: an attachment that does not parse or does not validate is rejected:
\* /set_config leaves config.json, .safe and .bak as they were and removes
\* the temporary file.
C11_InvalidUploadRejected ==
    (op.kind = "set_config" /\ ~Valid(upload)) =>
        /\ cpc \in {"set_check", "idle"}
        /\ primary = op.primary0 /\ safe = op.safe0 /\ bak = op.bak0
        /\ (cpc = "idle" => tmp = Missing)

\* C11 witness: an attachment that parses but fails validation has been
\* rejected while config.json held a document.
C11_Witness ==
    /\ op.kind = "set_config" /\ cpc = "idle"
    /\ upload.kind = "json" /\ ~Valid(upload)
    /\ Valid(primary) /\ tmp = Missing

\* C12: at every step of /set_config config.json holds either the complete
\* old content or the complete new document, never nothing.
C12_SetConfigPrimaryOldOrNew ==
    op.kind = "set_config" => primary \in {op.primary0, upload}

\* C13: an accepted /set_config with an existing config.json ends with
\* .safe and .bak holding what config.json held before and config.json
\* holding the attachment; .safe is written before .bak.
C13_SetConfigSnapshots ==
    /\ (op.kind = "set_config" /\ cpc = "set_exec" /\ exists(op.primary0)) =>
           /\ safe = op.primary0
           /\ bak = op.primary0
           /\ primary = upload
    /\ (op.kind = "set_config" /\ cpc = "set_backup") =>
           /\ safe = op.primary0
           /\ bak = op.bak0

\* C13 witness: /set_config has replaced a configuration by a different
\* one, and .safe and .bak held something else before.
C13_Witness ==
    /\ op.kind = "set_config" /\ cpc = "set_exec"
    /\ Valid(op.primary0) /\ primary = upload /\ upload.doc # op.primary0.doc
    /\ op.safe0 # op.primary0 /\ op.bak0 # op.primary0
    /\ safe = op.primary0 /\ bak = op.primary0

\* C14: /restore_config rejects a backup that does not validate and leaves
\* config.json alone; a valid one replaces config.json in one step, so that
\* config.json always holds its old content or the complete backup.
C14_RestoreValidatesAndIsAtomic ==
    op.kind = "restore" =>
        /\ ~Valid(Read(op.src)) => primary = op.primary0
        /\ \/ primary = op.primary0
           \/ primary.kind = "json" /\ primary.doc = Read(op.src).doc

\* C15: a load that recovers from a backup replaces config.json in one step
\* and writes the document to .safe too: config.json is never partial, and
\* after the load config.json and .safe both hold the returned document.
C15_RecoveryPromotesAndRewritesSafe ==
    /\ op.kind = "load" =>
           \/ primary = op.primary0
           \/ primary.kind = "json" /\ primary.doc = config
    /\ (Loaded /\ op.src \in {CONFIG_SAFE_BACKUP_PATH, CONFIG_BACKUP_PATH}) =>
           /\ primary.kind = "json" /\ primary.doc = config
           /\ safe.kind = "json" /\ safe.doc = config

\* C19: when the finally block of monitor_scripts has run, no process a
\* slot holds a handle of is running: every running one was terminated, or
\* killed after its 5 s wait timed out, whatever happened to the others.
C19_StopAllEndsEveryHandle ==
    mpc = "stopped" =>
        \A n \in Names :
            processes[n] # None =>
                /\ ~Alive(processes[n])
                /\ stopped[processes[n]] \in {"gone", "terminate", "kill"}

\* C19 witness: the wait of one slot timed out and its process was killed,
\* and the running process of a later slot was terminated all the same.
C19_Witness ==
    /\ mpc = "stopped"
    /\ \E n1, n2 \in Names :
         /\ processes[n1] # None /\ processes[n2] # None
         /\ SlotIndex(n1) < SlotIndex(n2)
         /\ stopped[processes[n1]] = "kill"
         /\ stopped[processes[n2]] = "terminate"
         /\ ~Alive(processes[n1]) /\ ~Alive(processes[n2])

\* C20: when /reboot has run, the slot's handle of the monitor is the new
\* process and its last_restart_time is the time of that spawn.
C20_RebootUpdatesBookkeeping ==
    [][\A project \in Names :
          reboot_command(project) =>
              /\ processes'[project] = nextPid
              /\ last_restart_time'[project] = now]_vars

\* the four keys validate_config requires
C16_Required == {"GUILD_ID", "TOKEN", "AUTHORIZED_LIST", "PROJECTS"}

\* the required keys a document lacks
C16_Lacking(d) ==
    {k \in C16_Required : d.top = "array" \/ d[k].type = "absent"}

\* C16: validate_config fails on a document that lacks a required key, and
\* its message says that a key is missing and names a key the document
\* lacks: the key, when only one is missing.
C16_MissingKeyNamed ==
    (/\ called = "validate_config" /\ returned
     /\ input.top \in {"object", "array"}
     /\ C16_Lacking(input) # {}) =>
        /\ ~output.ok
        /\ output.why = "missing"
        /\ output.key \in C16_Lacking(input)

\* C16 witness: a document that lacks only PROJECTS, and whose GUILD_ID is
\* mistyped, was found to miss PROJECTS.
C16_Witness ==
    /\ called = "validate_config" /\ returned
    /\ input.top = "object"
    /\ C16_Lacking(input) = {"PROJECTS"}
    /\ input.GUILD_ID.type = "str"
    /\ output = Verdict(FALSE, "PROJECTS", "missing", 0)

\* one check of a document: the field, what is checked, the project
C17_Check(key, why, index) == [key |-> key, why |-> why, index |-> index]

\* whether document d fails check c
C17_Fails(d, c) ==
    IF c.why = "missing" THEN d[c.key].type = "absent"
    ELSE IF c.why = "local_path"
         THEN /\ d.PROJECTS.type = "list"
              /\ c.index < Len(d.PROJECTS.val)
              /\ ~d.PROJECTS.val[c.index + 1]
    ELSE IF c.key = "GUILD_ID" THEN d.GUILD_ID.type \notin {"int", "bool"}
    ELSE IF c.key = "TOKEN"
         THEN IF d.TOKEN.type = "str" THEN d.TOKEN.val < 50 ELSE TRUE
    ELSE d[c.key].type # "list"

C17_LocalPaths == [i \in 1..MaxProjects + 1 |-> C17_Check("PROJECTS", "local_path", i - 1)]

\* the order the claim gives: each key's presence, then its type
C17_ClaimedOrder ==
    << C17_Check("GUILD_ID", "missing", 0), C17_Check("GUILD_ID", "type", 0),
       C17_Check("TOKEN", "missing", 0), C17_Check("TOKEN", "invalid", 0),
       C17_Check("AUTHORIZED_LIST", "missing", 0),
       C17_Check("AUTHORIZED_LIST", "type", 0),
       C17_Check("PROJECTS", "missing", 0), C17_Check("PROJECTS", "type", 0) >>
    \o C17_LocalPaths

\* the presence of all four keys first, then the types
C17_PresenceFirstOrder ==
    << C17_Check("GUILD_ID", "missing", 0), C17_Check("TOKEN", "missing", 0),
       C17_Check("AUTHORIZED_LIST", "missing", 0),
       C17_Check("PROJECTS", "missing", 0),
       C17_Check("GUILD_ID", "type", 0), C17_Check("TOKEN", "invalid", 0),
       C17_Check("AUTHORIZED_LIST", "type", 0), C17_Check("PROJECTS", "type", 0) >>
    \o C17_LocalPaths

\* the verdict that names the first check of `order` that d fails
C17_FirstFailure(order, d) ==
    LET failing == {i \in 1..Len(order) : C17_Fails(d, order[i])}
        first == CHOOSE i \in failing : \A j \in failing : i <= j
    IN  IF failing = {} THEN Verdict(TRUE, "", "OK", 0)
        ELSE Verdict(FALSE, order[first].key, order[first].why, order[first].index)

\* C17 as stated: validate_config names the first failing check in the
\* order GUILD_ID presence, GUILD_ID type, TOKEN presence, TOKEN type and
\* length, AUTHORIZED_LIST presence and type, PROJECTS presence and type,
\* then local_path of each project.
C17_ClaimedCheckOrder ==
    (called = "validate_config" /\ returned /\ input.top = "object") =>
        output = C17_FirstFailure(C17_ClaimedOrder, input)

\* C17 amended: validate_config names the first failing check in the order
\* presence of GUILD_ID, TOKEN, AUTHORIZED_LIST, PROJECTS, then GUILD_ID
\* type, TOKEN type and length, AUTHORIZED_LIST type, PROJECTS type, then
\* local_path of each project.
C17_PresenceBeforeTypes ==
    (called = "validate_config" /\ returned /\ input.top = "object") =>
        output = C17_FirstFailure(C17_PresenceFirstOrder, input)

\* C17 witness: a document with a mistyped GUILD_ID and no TOKEN was found
\* to miss TOKEN.
C17_Witness ==
    /\ called = "validate_config" /\ returned
    /\ input.top = "object"
    /\ input.GUILD_ID.type = "str" /\ input.TOKEN.type = "absent"
    /\ output = Verdict(FALSE, "TOKEN", "missing", 0)

\* the value the claim gives a token: the project's field, else the field
\* of the configuration document, else the token itself
C18_Claimed(project, cfg, arg) ==
    LET value == IF project[arg].type # "absent" THEN project[arg]
                 ELSE IF cfg[arg].type # "absent" THEN cfg[arg]
                 ELSE [type |-> "str", origin |-> "literal", key |-> arg]
    IN  IF value.type = "dict" THEN [value EXCEPT !.type = "json_text"] ELSE value

\* C18: each token of args becomes the project's field of that name, else
\* the field of that name of config.json, else stays the token.
C18_ResolvePriority ==
    (called = "resolve_args" /\ returned) =>
        /\ Len(output) = Len(input.args)
        /\ \A i \in 1..Len(input.args) :
             output[i] = C18_Claimed(input.project, input.config, input.args[i])

\* C21: a script is started for a slot only while the slot's handle is
\* absent or refers to a process that is gone, whoever starts it: the
\* monitor, /reboot or the button of /pull.
C21_SpawnOnlyWithoutLiveHandle ==
    [][/\ MonitorSpawn =>
            (processes[name] = None \/ ~Alive(processes[name]))
       /\ \A project \in Names :
            (reboot_command(project) \/ UpdateConfirmView_confirm(project)) =>
                (processes[project] = None \/ ~Alive(processes[project]))]_vars

\* C22: while the monitor sleeps the cooldown of one slot, it does nothing
\* else: it stays at that project, no handle and no last_restart_time
\* changes, and no process is started by the poll loop.
C22_CooldownBlocksLoop ==
    [][(mpc = "cooldown_sleep" /\ now < wakeAt) =>
          /\ mpc' = mpc /\ midx' = midx
          /\ processes' = processes
          /\ last_restart_time' = last_restart_time
          /\ \A pid \in Pids : ptable'[pid].by = "poll" => ptable[pid].by = "poll"]_vars

\* C22 witness: the monitor sleeps the cooldown of one slot while the
\* process of another slot is gone and that slot's cooldown is over.
C22_Witness ==
    /\ mpc = "cooldown_sleep" /\ now < wakeAt
    /\ \E m \in Names :
         /\ m # name
         /\ processes[m] # None
         /\ ~Alive(processes[m])
         /\ now - last_restart_time[m] >= RESTART_COOLDOWN

\* the names a project can have
C23_Names == {<<"w">>, <<"x">>, <<"y">>, <<"m", "w">>}

\* one poll interval and one cooldown, each of the two sleeps ending up to
\* a tick late
C23_Budget == CHECK_INTERVAL + RESTART_COOLDOWN + 2 * TickStep

\* the process of slot n has exited while the clock leaves room for a poll
\* interval and the cooldowns
C23_Exited(n) ==
    IF n \in Names
    THEN /\ processes[n] # None
         /\ ~Alive(processes[n])
         /\ now + C23_Budget <= MaxTimeLive
    ELSE FALSE

\* slot n has a running process again, or no pid is left for one
C23_Respawned(n) ==
    IF n \in Names
    THEN IF nextPid > MaxPid THEN TRUE
         ELSE IF processes[n] = None THEN FALSE
         ELSE Alive(processes[n])
    ELSE TRUE

\* C23: when the process of a slot has exited and the monitor thread keeps
\* running, the slot is started again, within one poll interval and one
\* cooldown.
C23_ExitedSlotRespawned ==
    \A n \in C23_Names : C23_Exited(n) ~> C23_Respawned(n)

\* C23 witness: a slot whose process had exited runs its second process.
C23_Witness ==
    \E n \in Names :
        /\ prevSpawnedAt[n] >= 0
        /\ processes[n] # None
        /\ Alive(processes[n])
        /\ ptable[processes[n]].by = "poll"
        /\ \A pid \in Pids : ptable[pid].by \in {"self", "poll", "none"}

C25_UpdateReplacesProcess ==
    [][\A project \in Names :
          UpdateConfirmView_confirm(project) =>
              /\ script'[RebootTarget(project)] = "github"
              /\ LiveForNext(RebootTarget(project)) = {nextPid}]_vars

\* the command line of process pid names the path of the project the
\* monitor is handling
C26_ReferencesPath(pid) ==
    \E a \in 1..Len(Cmdline(ptable[pid].cmd)) :
        IsSubstring(path, Cmdline(ptable[pid].cmd)[a])

\* C26: the duplicate cleanup for a project ends only processes whose
\* command line names that project's local_path, and never the supervisor.
C26_KillOnlyOwnTarget ==
    [][MonitorKillExisting =>
          /\ ptable'[current_pid] = ptable[current_pid]
          /\ \A pid \in Pids :
               (Alive(pid) /\ ptable'[pid] = NoProc) => C26_ReferencesPath(pid)]_vars

\* C27: when the first pass of the poll loop is over and no process it
\* started has exited, every project of PROJECTS has a running process of
\* its own that the monitor started.
C27_EveryProjectRuns ==
    (/\ mpc = "cycle_sleep"
     /\ \A n \in Names :
          /\ processes[n] # None
          /\ Alive(processes[n])
          /\ prevSpawnedAt[n] = -1) =>
        \A i \in 1..Len(PROJECTS) :
            \E pid \in Pids :
                /\ Alive(pid)
                /\ ptable[pid].cmd = i
                /\ ptable[pid].by = "poll"

\* C28: once the store has written .safe, at a load (line 89) or in
\* /set_config (line 364), .safe holds a document that validates.
C28_SafeAlwaysValid ==
    /\ (Loaded /\ op.src = CONFIG_PATH) => Valid(safe)
    /\ (/\ op.kind = "set_config"
        /\ cpc \in {"set_backup", "set_swap", "set_exec"}
        /\ exists(op.primary0)) => Valid(safe)

====
